---- MODULE Spec2Model ----
(***************************************************************************)
(* POSIX file layer of ArceOS (api/arceos_posix_api/src/imp/fs.rs): the    *)
(* File / Directory objects, the descriptor table they are registered in,  *)
(* the unified file-or-directory open, the dirfd-anchored calls, the       *)
(* per-object timestamp overlay of utimensat, lseek, fstat and getcwd.     *)
(*                                                                         *)
(* The backend filesystem (axfs::fops), the descriptor table (fd_ops) and  *)
(* the ctypes constants are not part of the files modelled here; they are  *)
(* modelled from the design document.                                     *)
(***************************************************************************)
EXTENDS Integers, Sequences, FiniteSets, TLC

----------------------------------------------------------------------------
(* Bounds of the model *)

\* capacity of the descriptor table
FdLimit == 2
\* the wall clock runs over the seconds 1..MaxClock
MaxClock == 2
\* size of the user buffer handed to getcwd
BufCap == 4
\* largest file size / cursor the backend holds
MaxSize == 2
\* number of system calls in one run
MaxSteps == 2
\* largest value of the tick counter
MaxTick == 3

----------------------------------------------------------------------------
(* Program constants *)

UTIME_NOW == 1073741823
UTIME_OMIT == 1073741822
AT_FDCWD == -100

O_RDONLY == 0
O_WRONLY == 1
O_RDWR == 2
O_CREAT == 64
O_TRUNC == 512
O_APPEND == 1024
O_DIRECTORY == 65536
O_EXEC == 2097152

----------------------------------------------------------------------------
(* Results: LinuxResult<T> as a record; syscall_body! turns Err(e) into -e *)

Ok(v) == [ok |-> TRUE, v |-> v, e |-> "OK", ptr |-> "none"]
Err(e) == [ok |-> FALSE, v |-> -1, e |-> e, ptr |-> "none"]
OkPtr(p) == [ok |-> TRUE, v |-> 0, e |-> "OK", ptr |-> p]

----------------------------------------------------------------------------
(* Paths are sequences of one-character strings *)

Root == <<"/">>
NullPath == <<"NULL">>

IsAbs(p) == Len(p) > 0 /\ p[1] = "/"

\* the path strings the calls are given
AbsArgs == {<<"/", "a">>, <<"/", "f">>}
RelArgs == {<<"a">>, <<"f">>}
PathArgs == AbsArgs \cup RelArgs

\* the nodes the backend volume can hold
Nodes == {Root, <<"/", "a">>, <<"/", "f">>,
          <<"/", "a", "/", "a">>, <<"/", "a", "/", "f">>}

ParentOf(n) == IF Len(n) <= 2 THEN Root ELSE SubSeq(n, 1, Len(n) - 2)

----------------------------------------------------------------------------
(* timespec *)

TS(s, n) == [tv_sec |-> s, tv_nsec |-> n]
ZeroTime == TS(0, 0)
NullTimes == <<>>

\* lexicographic order of two timespecs
TimeLeq(a, b) ==
    \/ a.tv_sec < b.tv_sec
    \/ a.tv_sec = b.tv_sec /\ a.tv_nsec <= b.tv_nsec

\* the values the wall clock takes: axhal::time::wall_time() is a Duration
ClockValues == {[secs |-> s, nanos |-> n] : s \in 1..MaxClock, n \in {5}}

\* timespec::from(Duration)
DurationToTimespec(d) == TS(d.secs, d.nanos)

\* the clock does not run backwards
ClockLeq(c, d) == TimeLeq(DurationToTimespec(c), DurationToTimespec(d))

\* the candidates a caller passes for atime and for mtime
ATimeArgs == {TS(7, 3), TS(0, UTIME_OMIT), TS(0, UTIME_NOW)}
MTimeArgs == {TS(8, 4), TS(9, UTIME_OMIT), TS(9, UTIME_NOW)}
TimesArgs == {NullTimes} \cup {<<a, m>> : a \in ATimeArgs, m \in MTimeArgs}

----------------------------------------------------------------------------
VARIABLES
    fdTable,   \* descriptor -> File / Directory object, or NoObj
    fs,        \* backend namespace: node -> "none" | "file" | "dir"
    fsz,       \* backend file sizes: node -> 0..MaxSize
    cwd,       \* current working directory, with its trailing "/"
    clock,     \* wall clock
    ubuf,      \* the user buffer of getcwd
    sbuf,      \* the user buffer of fstat
    last,      \* the last system call: arguments, result, what it touched
    steps,     \* number of calls made
    mounts,    \* mount table: root path -> filesystem instance
    halted,    \* the kernel has panicked
    calling,   \* task -> the call it is in, on the shared objects, or NoCall
    pc,        \* task -> the step of the lock plan of its call it is at
    held,      \* lock of the shared File / Directory -> task holding it, or 0
    shared,    \* the File object that the tasks share
    seen,      \* task -> the timestamps its File::stat in progress has read
    tms,       \* the Times of the current task
    ticks,     \* axhal::time::current_ticks()
    run,       \* the interval the task is in: its mode and the tick it began
    spent      \* the ticks of the intervals over, by mode

vars == <<fdTable, fs, fsz, cwd, clock, ubuf, sbuf, last, steps, mounts, halted,
          calling, pc, held, shared, seen, tms, ticks, run, spent>>

\* the time accounting of the current task
timesVars == <<tms, ticks, run, spent>>

\* the state of the tasks: their calls on the File and the Directory that
\* they share, and the time accounting
taskVars == <<calling, pc, held, shared, seen, timesVars>>

\* the state that only mount and umount touch
mountVars == <<mounts, halted>>

Fds == 0..(FdLimit - 1)

NoObj == [kind |-> "None", node |-> <<>>, path |-> <<>>, offset |-> 0,
          st_atime |-> ZeroTime, st_mtime |-> ZeroTime]

----------------------------------------------------------------------------
(* OpenOptions and flags_to_options *)

OptionsNew == [read |-> FALSE, write |-> FALSE, append |-> FALSE,
               truncate |-> FALSE, create |-> FALSE, create_new |-> FALSE,
               directory |-> FALSE, execute |-> FALSE]

\* flags & mask != 0, for a mask of one bit
HasBit(flags, mask) == (flags \div mask) % 2 = 1

\* the mode that the open calls of the model pass on; it is never read
ModeArg == 420

\* flags_to_options that decodes the access mode from the lowest bit alone
flags_to_options_OneBitAccess(flags, mode) ==
    LET acc == flags % 2
        o1 == IF acc = O_RDONLY THEN [OptionsNew EXCEPT !.read = TRUE]
              ELSE IF acc = O_WRONLY THEN [OptionsNew EXCEPT !.write = TRUE]
              ELSE [OptionsNew EXCEPT !.read = TRUE, !.write = TRUE]
    IN [o1 EXCEPT !.append = HasBit(flags, O_APPEND),
                  !.truncate = HasBit(flags, O_TRUNC),
                  !.create = HasBit(flags, O_CREAT),
                  !.create_new = HasBit(flags, O_EXEC),
                  !.directory = HasBit(flags, O_DIRECTORY)]

\* flags_to_options; flags & 0b11 is flags % 4, and _mode is not used
flags_to_options(flags, mode) ==
    LET acc == flags % 4
        o1 == IF acc = O_RDONLY THEN [OptionsNew EXCEPT !.read = TRUE]
              ELSE IF acc = O_WRONLY THEN [OptionsNew EXCEPT !.write = TRUE]
              ELSE [OptionsNew EXCEPT !.read = TRUE, !.write = TRUE]
    IN [o1 EXCEPT !.append = HasBit(flags, O_APPEND),
                  !.truncate = HasBit(flags, O_TRUNC),
                  !.create = HasBit(flags, O_CREAT),
                  !.create_new = HasBit(flags, O_EXEC),
                  !.directory = HasBit(flags, O_DIRECTORY)]

\* a directory retry that keeps the caller's create_new
DirRetryOptions_KeepsCreateNew(options) ==
    [options EXCEPT !.execute = TRUE]

\* the options of the directory retry: a clone, the caller's value is kept
DirRetryOptions(options) ==
    [options EXCEPT !.execute = TRUE, !.create_new = FALSE]

FlagArgs == {O_RDONLY, O_WRONLY + O_CREAT + O_TRUNC, O_DIRECTORY}

\* flag words with the bit that flags_to_options turns into create_new
ExclFlagArgs == {O_RDONLY, O_EXEC, O_WRONLY + O_CREAT + O_EXEC,
                 O_RDWR + O_APPEND + O_TRUNC + O_EXEC}

----------------------------------------------------------------------------
(* Backend filesystem *)

Kind(f, n) == IF n \in DOMAIN f THEN f[n] ELSE "none"

\* a path given to a cwd-relative backend entry point
ResolveCwd(p) == IF IsAbs(p) THEN p ELSE cwd \o p

\* a path given to an entry point of a directory handle
ResolveAt(node, p) ==
    IF IsAbs(p) THEN p
    ELSE IF node = Root THEN node \o p
    ELSE node \o <<"/">> \o p

CanCreate(f, n) == n \in Nodes /\ f[n] = "none" /\ Kind(f, ParentOf(n)) = "dir"

\* axfs::fops::File::open / Directory::open_file_at on node n
BackendOpenFile(f, z, n, opts) ==
    CASE Kind(f, n) = "file" ->
            IF opts.create_new
            THEN [ok |-> FALSE, e |-> "EEXIST", fs |-> f, fsz |-> z]
            ELSE [ok |-> TRUE, e |-> "OK", fs |-> f,
                  fsz |-> IF opts.truncate THEN [z EXCEPT ![n] = 0] ELSE z]
      [] Kind(f, n) = "dir" ->
            [ok |-> FALSE, e |-> "EISDIR", fs |-> f, fsz |-> z]
      [] OTHER ->
            IF (opts.create \/ opts.create_new) /\ CanCreate(f, n)
            THEN [ok |-> TRUE, e |-> "OK",
                  fs |-> [f EXCEPT ![n] = "file"], fsz |-> [z EXCEPT ![n] = 0]]
            ELSE [ok |-> FALSE, e |-> "ENOENT", fs |-> f, fsz |-> z]

\* the errors the backend may give for a directory open of a regular file
DirErrs == {"ENOTDIR", "EINVAL"}

\* axfs::fops::Directory::open_dir / Directory::open_dir_at on node n
\* de = "EINVAL": the failure is reported as an invalid argument; otherwise
\* by what the lookup found
BackendOpenDir(f, n, opts, de) ==
    CASE Kind(f, n) = "dir" -> [ok |-> TRUE, e |-> "OK"]
      [] Kind(f, n) = "file" -> [ok |-> FALSE, e |-> de]
      [] OTHER -> [ok |-> FALSE, e |-> IF de = "EINVAL" THEN de ELSE "ENOENT"]

----------------------------------------------------------------------------
(* Descriptor table *)

FreeFds(t) == {fd \in Fds : t[fd].kind = "None"}

\* fd_ops::add_file_like: the smallest free descriptor, or EMFILE
add_file_like(t, obj) ==
    IF FreeFds(t) = {} THEN [ret |-> Err("EMFILE"), table |-> t]
    ELSE LET fd == CHOOSE x \in FreeFds(t) : \A y \in FreeFds(t) : x <= y
         IN [ret |-> Ok(fd), table |-> [t EXCEPT ![fd] = obj]]

\* fd_ops::get_file_like
get_file_like(t, fd) ==
    IF fd \in Fds /\ t[fd].kind # "None"
    THEN [ok |-> TRUE, e |-> "OK", obj |-> t[fd]]
    ELSE [ok |-> FALSE, e |-> "EBADF", obj |-> NoObj]

----------------------------------------------------------------------------
(* File and Directory objects *)

FileNew(n) == [kind |-> "File", node |-> n, path |-> <<>>, offset |-> 0,
               st_atime |-> ZeroTime, st_mtime |-> ZeroTime]

DirectoryNew(n, path) ==
    [kind |-> "Directory", node |-> n, path |-> path, offset |-> 0,
     st_atime |-> ZeroTime, st_mtime |-> ZeroTime]

\* the error of a failed downcast in File::from_fd and Directory::from_fd
DowncastErr == "EINVAL"

FileFromFd(t, fd) ==
    LET g == get_file_like(t, fd)
    IN IF ~g.ok THEN g
       ELSE IF g.obj.kind = "File" THEN g
       ELSE [ok |-> FALSE, e |-> DowncastErr, obj |-> NoObj]

DirectoryFromFd(t, fd) ==
    LET g == get_file_like(t, fd)
    IN IF ~g.ok THEN g
       ELSE IF g.obj.kind = "Directory" THEN g
       ELSE [ok |-> FALSE, e |-> DowncastErr, obj |-> NoObj]

----------------------------------------------------------------------------
(* What one call did: its result and the state it leaves *)

\* a call that fails before it touches anything
Fail(e, lookups) ==
    [ret |-> Err(e), table |-> fdTable, fs |-> fs, fsz |-> fsz,
     calls |-> <<>>, lookups |-> lookups, route |-> "none", node |-> <<>>]

\* the error a failed directory attempt is reported with
RemapDirErr(e) == IF e = "EINVAL" THEN "ENOTDIR" ELSE e

\* add_file_or_directory_fd without the directory retry: the error of the
\* file attempt is returned as it is
add_file_or_directory_fd_NoRetry(n, filename, options, passOpts, de, lookups, route) ==
    LET fo == IF passOpts THEN options ELSE OptionsNew
        fr == BackendOpenFile(fs, fsz, n, fo)
        fa == add_file_like(fdTable, FileNew(n))
        fcall == <<[fn |-> "open_file", node |-> n, opts |-> fo, given |-> options,
                    e |-> IF fr.ok THEN fa.ret.e ELSE fr.e]>>
    IN IF fr.ok
       THEN [ret |-> fa.ret, table |-> fa.table, fs |-> fr.fs, fsz |-> fr.fsz,
             calls |-> fcall, lookups |-> lookups, route |-> route, node |-> n]
       ELSE [ret |-> Err(fr.e), table |-> fdTable, fs |-> fr.fs, fsz |-> fr.fsz,
             calls |-> fcall, lookups |-> lookups, route |-> route, node |-> n]

\* add_file_or_directory_fd that answers 0 for every open that succeeds
add_file_or_directory_fd_ReturnsZero(n, filename, options, passOpts, de, lookups, route) ==
    LET fo == IF passOpts THEN options ELSE OptionsNew
        fr == BackendOpenFile(fs, fsz, n, fo)
        fa == add_file_like(fdTable, FileNew(n))
        fcall == <<[fn |-> "open_file", node |-> n, opts |-> fo, given |-> options,
                    e |-> IF fr.ok THEN fa.ret.e ELSE fr.e]>>
    IN IF fr.ok /\ fa.ret.ok
       THEN [ret |-> Ok(0), table |-> fa.table, fs |-> fr.fs, fsz |-> fr.fsz,
             calls |-> fcall, lookups |-> lookups, route |-> route, node |-> n]
       ELSE LET retry == DirRetryOptions(options)
                do == IF passOpts THEN retry ELSE OptionsNew
                dr == BackendOpenDir(fr.fs, n, do, de)
                da == add_file_like(fdTable, DirectoryNew(n, filename))
                calls == fcall \o <<[fn |-> "open_dir", node |-> n, opts |-> do,
                                     given |-> retry,
                                     e |-> IF dr.ok THEN da.ret.e ELSE dr.e]>>
            IN IF ~dr.ok
               THEN [ret |-> Err(RemapDirErr(dr.e)), table |-> fdTable,
                     fs |-> fr.fs, fsz |-> fr.fsz,
                     calls |-> calls, lookups |-> lookups, route |-> route, node |-> n]
               ELSE [ret |-> IF da.ret.ok THEN Ok(0) ELSE da.ret, table |-> da.table,
                     fs |-> fr.fs, fsz |-> fr.fsz,
                     calls |-> calls, lookups |-> lookups, route |-> route, node |-> n]

\* add_file_or_directory_fd on the resolved node n.  passOpts: the closures
\* hand the options they receive to the backend (sys_open, sys_openat);
\* otherwise they open with OpenOptions::new() (sys_utimensat).
add_file_or_directory_fd(n, filename, options, passOpts, de, lookups, route) ==
    LET fo == IF passOpts THEN options ELSE OptionsNew
        fr == BackendOpenFile(fs, fsz, n, fo)
        fa == add_file_like(fdTable, FileNew(n))
        \* given: the options handed to the closure; opts: those the backend
        \* receives; e: the error the attempt ends with, "OK" when it has none
        fcall == <<[fn |-> "open_file", node |-> n, opts |-> fo, given |-> options,
                    e |-> IF fr.ok THEN fa.ret.e ELSE fr.e]>>
    IN IF fr.ok /\ fa.ret.ok
       THEN [ret |-> fa.ret, table |-> fa.table, fs |-> fr.fs, fsz |-> fr.fsz,
             calls |-> fcall, lookups |-> lookups, route |-> route, node |-> n]
       ELSE LET retry == DirRetryOptions(options)
                do == IF passOpts THEN retry ELSE OptionsNew
                dr == BackendOpenDir(fr.fs, n, do, de)
                da == add_file_like(fdTable, DirectoryNew(n, filename))
                calls == fcall \o <<[fn |-> "open_dir", node |-> n, opts |-> do,
                                     given |-> retry,
                                     e |-> IF dr.ok THEN da.ret.e ELSE dr.e]>>
            IN IF ~dr.ok
               THEN [ret |-> Err(RemapDirErr(dr.e)), table |-> fdTable,
                     fs |-> fr.fs, fsz |-> fr.fsz,
                     calls |-> calls, lookups |-> lookups, route |-> route, node |-> n]
               ELSE [ret |-> da.ret, table |-> da.table,
                     fs |-> fr.fs, fsz |-> fr.fsz,
                     calls |-> calls, lookups |-> lookups, route |-> route, node |-> n]

\* sys_open
sys_open(filename, flags, de) ==
    LET options == flags_to_options(flags, ModeArg)
        n == ResolveCwd(filename)
    IN IF options.directory
       THEN LET dr == BackendOpenDir(fs, n, options, de)
                da == add_file_like(fdTable, DirectoryNew(n, filename))
                calls == <<[fn |-> "open_dir", node |-> n, opts |-> options,
                            e |-> IF dr.ok THEN da.ret.e ELSE dr.e]>>
            IN IF ~dr.ok
               THEN [ret |-> Err(dr.e), table |-> fdTable, fs |-> fs, fsz |-> fsz,
                     calls |-> calls, lookups |-> {}, route |-> "cwd", node |-> n]
               ELSE [ret |-> da.ret, table |-> da.table, fs |-> fs, fsz |-> fsz,
                     calls |-> calls, lookups |-> {}, route |-> "cwd", node |-> n]
       ELSE add_file_or_directory_fd(n, filename, options, TRUE, de, {}, "cwd")

\* the test of sys_openat, sys_mkdirat and sys_unlinkat that sends the call
\* to the current working directory
AtUsesCwd(dirfd, path) == IsAbs(path) \/ dirfd = AT_FDCWD

\* sys_openat
sys_openat(dirfd, filename, flags, de) ==
    LET options == flags_to_options(flags, ModeArg)
    IN IF AtUsesCwd(dirfd, filename)
       THEN sys_open(filename, flags, de)
       ELSE LET d == DirectoryFromFd(fdTable, dirfd)
            IN IF ~d.ok THEN Fail(d.e, {dirfd})
               ELSE add_file_or_directory_fd(ResolveAt(d.obj.node, filename),
                        filename, options, TRUE, de, {dirfd}, "dirfd")

----------------------------------------------------------------------------
(* Timestamp overlay *)

\* set_as_utime that takes every candidate but UTIME_NOW for UTIME_OMIT
set_as_utime_DropsLiteral(self, time, now) ==
    IF time.tv_nsec = UTIME_NOW THEN now ELSE self

\* timespec::set_as_utime: the new value of a field holding self
set_as_utime(self, time, now) ==
    IF time.tv_nsec = UTIME_NOW THEN now
    ELSE IF time.tv_nsec = UTIME_OMIT THEN self
    ELSE time

\* File::set_atime
set_atime(file, atime, now) ==
    [file EXCEPT !.st_atime = set_as_utime(file.st_atime, atime, now)]

\* set_mtime that locks st_atime instead of st_mtime
set_mtime_WritesAtime(file, mtime, now) ==
    [file EXCEPT !.st_atime = set_as_utime(file.st_atime, mtime, now)]

\* File::set_mtime
set_mtime(file, mtime, now) ==
    [file EXCEPT !.st_mtime = set_as_utime(file.st_mtime, mtime, now)]

\* the first check of sys_utimensat with the sentinel taken for a lower bound
BadDirfd_BelowSentinel(dirfd) == dirfd < AT_FDCWD

\* the first check of sys_utimensat
BadDirfd(dirfd) == dirfd # AT_FDCWD /\ dirfd < 0

\* the test that sends sys_utimensat to the current working directory
UtimensatUsesCwd(dirfd, path) == dirfd = -AT_FDCWD

\* sys_utimensat that keeps the timestamps by file: every File open on the
\* file of dirfd takes them
sys_utimensat_PerPath(dirfd, pathname, times, r1, r2, r3, de) ==
    IF BadDirfd(dirfd) THEN Fail("EBADF", {})
    ELSE
      LET cur == DurationToTimespec(r1)
          atime == IF times = NullTimes THEN cur ELSE times[1]
          mtime == IF times = NullTimes THEN cur ELSE times[2]
      IN IF pathname = NullPath
         THEN LET f == FileFromFd(fdTable, dirfd)
              IN IF ~f.ok THEN Fail(f.e, {dirfd})
                 ELSE LET f1 == set_atime(f.obj, atime, DurationToTimespec(r2))
                          f2 == set_mtime(f1, mtime, DurationToTimespec(r3))
                      IN [ret |-> Ok(0), table |-> [x \in Fds |->
                                       IF /\ fdTable[x].kind = "File"
                                          /\ fdTable[x].node = f.obj.node
                                       THEN [fdTable[x] EXCEPT
                                                !.st_atime = f2.st_atime,
                                                !.st_mtime = f2.st_mtime]
                                       ELSE fdTable[x]],
                          fs |-> fs, fsz |-> fsz, calls |-> <<>>,
                          lookups |-> {dirfd}, route |-> "fd", node |-> f.obj.node]
         ELSE LET r == IF UtimensatUsesCwd(dirfd, pathname)
                       THEN add_file_or_directory_fd(ResolveCwd(pathname),
                                pathname, OptionsNew, FALSE, de, {}, "cwd")
                       ELSE LET d == DirectoryFromFd(fdTable, dirfd)
                            IN IF ~d.ok THEN Fail(d.e, {dirfd})
                               ELSE add_file_or_directory_fd(
                                        ResolveAt(d.obj.node, pathname),
                                        pathname, OptionsNew, FALSE, de,
                                        {dirfd}, "dirfd")
              IN IF r.ret.ok THEN [r EXCEPT !.ret = Ok(0)] ELSE r

\* sys_utimensat; r1, r2, r3 are the clock readings of wall_time() for a
\* null times pointer and of timespec::now() for atime and for mtime
sys_utimensat(dirfd, pathname, times, r1, r2, r3, de) ==
    IF BadDirfd(dirfd) THEN Fail("EBADF", {})
    ELSE
      LET cur == DurationToTimespec(r1)
          atime == IF times = NullTimes THEN cur ELSE times[1]
          mtime == IF times = NullTimes THEN cur ELSE times[2]
      IN IF pathname = NullPath
         THEN LET f == FileFromFd(fdTable, dirfd)
              IN IF ~f.ok THEN Fail(f.e, {dirfd})
                 ELSE LET f1 == set_atime(f.obj, atime, DurationToTimespec(r2))
                          f2 == set_mtime(f1, mtime, DurationToTimespec(r3))
                      IN [ret |-> Ok(0), table |-> [fdTable EXCEPT ![dirfd] = f2],
                          fs |-> fs, fsz |-> fsz, calls |-> <<>>,
                          lookups |-> {dirfd}, route |-> "fd", node |-> f.obj.node]
         ELSE LET r == IF UtimensatUsesCwd(dirfd, pathname)
                       THEN add_file_or_directory_fd(ResolveCwd(pathname),
                                pathname, OptionsNew, FALSE, de, {}, "cwd")
                       ELSE LET d == DirectoryFromFd(fdTable, dirfd)
                            IN IF ~d.ok THEN Fail(d.e, {dirfd})
                               ELSE add_file_or_directory_fd(
                                        ResolveAt(d.obj.node, pathname),
                                        pathname, OptionsNew, FALSE, de,
                                        {dirfd}, "dirfd")
              IN IF r.ret.ok THEN [r EXCEPT !.ret = Ok(0)] ELSE r

----------------------------------------------------------------------------
(* lseek, read, write, fstat, close *)

\* the (offset, whence) pairs lseek is called with
SeekArgs == {<<0, 0>>, <<1, 0>>, <<1, 1>>, <<0, 1>>, <<0, 2>>, <<0, 3>>}

\* axfs::fops::File::seek: the new cursor, or -1 for a negative position
BackendSeek(file, offset, whence) ==
    LET base == IF whence = 0 THEN 0
                ELSE IF whence = 1 THEN file.offset
                ELSE fsz[file.node]
    IN IF base + offset < 0 THEN -1 ELSE base + offset

\* sys_lseek that takes SEEK_CUR for SEEK_SET
sys_lseek_CurrentIsStart(fd, offset, whence) ==
    IF whence \notin {0, 1, 2} THEN Fail("EINVAL", {})
    ELSE LET f == FileFromFd(fdTable, fd)
         IN IF ~f.ok THEN Fail(f.e, {fd})
            ELSE LET off == BackendSeek(f.obj, offset,
                                        IF whence = 1 THEN 0 ELSE whence)
                 IN IF off < 0 THEN Fail("EINVAL", {fd})
                    ELSE [ret |-> Ok(off),
                          table |-> [fdTable EXCEPT ![fd].offset = off],
                          fs |-> fs, fsz |-> fsz, calls |-> <<>>,
                          lookups |-> {fd}, route |-> "fd", node |-> f.obj.node]

\* sys_lseek
sys_lseek(fd, offset, whence) ==
    IF whence \notin {0, 1, 2} THEN Fail("EINVAL", {})
    ELSE LET f == FileFromFd(fdTable, fd)
         IN IF ~f.ok THEN Fail(f.e, {fd})
            ELSE LET off == BackendSeek(f.obj, offset, whence)
                 IN IF off < 0 THEN Fail("EINVAL", {fd})
                    ELSE [ret |-> Ok(off),
                          table |-> [fdTable EXCEPT ![fd].offset = off],
                          fs |-> fs, fsz |-> fsz, calls |-> <<>>,
                          lookups |-> {fd}, route |-> "fd", node |-> f.obj.node]

\* FileLike::read of the object: one byte at the cursor
FileLikeRead(obj) ==
    IF obj.kind = "Directory" THEN [ok |-> FALSE, e |-> "EBADF", n |-> 0]
    ELSE [ok |-> TRUE, e |-> "OK",
          n |-> IF obj.offset < fsz[obj.node] THEN 1 ELSE 0]

\* FileLike::write of the object: one byte at the cursor
FileLikeWrite(obj) ==
    IF obj.kind = "Directory" THEN [ok |-> FALSE, e |-> "EBADF", n |-> 0]
    ELSE [ok |-> TRUE, e |-> "OK", n |-> 1]

\* sys_read
sys_read(fd) ==
    LET g == get_file_like(fdTable, fd)
    IN IF ~g.ok THEN Fail(g.e, {fd})
       ELSE LET r == FileLikeRead(g.obj)
            IN IF ~r.ok THEN Fail(r.e, {fd})
               ELSE [ret |-> Ok(r.n),
                     table |-> [fdTable EXCEPT ![fd].offset = @ + r.n],
                     fs |-> fs, fsz |-> fsz, calls |-> <<>>,
                     lookups |-> {fd}, route |-> "fd", node |-> g.obj.node]

\* sys_write
sys_write(fd) ==
    LET g == get_file_like(fdTable, fd)
    IN IF ~g.ok THEN Fail(g.e, {fd})
       ELSE LET r == FileLikeWrite(g.obj)
                end == g.obj.offset + r.n
            IN IF ~r.ok THEN Fail(r.e, {fd})
               ELSE [ret |-> Ok(r.n),
                     table |-> [fdTable EXCEPT ![fd].offset = end],
                     fs |-> fs,
                     fsz |-> [fsz EXCEPT ![g.obj.node] =
                                 IF end > @ THEN end ELSE @],
                     calls |-> <<>>,
                     lookups |-> {fd}, route |-> "fd", node |-> g.obj.node]

NoStat == [st_ino |-> 0, st_nlink |-> 0, st_mode |-> 0, st_uid |-> 0,
           st_gid |-> 0, st_size |-> -1, st_blocks |-> 0, st_blksize |-> 0,
           st_atime |-> ZeroTime, st_mtime |-> ZeroTime]

\* ctypes::stat::default()
DefaultStat == [st_ino |-> 0, st_nlink |-> 0, st_mode |-> 0, st_uid |-> 0,
                st_gid |-> 0, st_size |-> 0, st_blocks |-> 0, st_blksize |-> 0,
                st_atime |-> ZeroTime, st_mtime |-> ZeroTime]

\* what get_attr may answer: the attributes, or an error of the backend
AttrErrs == {"OK", "EIO"}

\* the attributes the backend reports for node n: VfsNodeType as u8,
\* permission bits, size, and the 512-byte blocks the size takes
BackendType(n) == IF Kind(fs, n) = "dir" THEN 4 ELSE 8
BackendPerm(n) == IF n = <<"/", "f">> THEN 420 ELSE 493
BackendBlocks(n) == (fsz[n] + 511) \div 512
BackendGetAttr(n, ae) ==
    IF ae # "OK" THEN [ok |-> FALSE, e |-> ae, ty |-> 0, perm |-> 0,
                       size |-> 0, blocks |-> 0]
    ELSE [ok |-> TRUE, e |-> "OK", ty |-> BackendType(n),
          perm |-> BackendPerm(n), size |-> fsz[n],
          blocks |-> BackendBlocks(n)]

\* File::stat with the timestamps of both fields swapped
FileLikeStat_SwapsTimes(obj, ae) ==
    IF obj.kind = "Directory" THEN [ok |-> FALSE, e |-> "EBADF", st |-> NoStat]
    ELSE LET metadata == BackendGetAttr(obj.node, ae)
         IN IF ~metadata.ok
            THEN [ok |-> FALSE, e |-> metadata.e, st |-> NoStat]
            ELSE [ok |-> TRUE, e |-> "OK",
                  st |-> [st_ino |-> 1, st_nlink |-> 1,
                          st_mode |-> metadata.ty * 4096 + metadata.perm,
                          st_uid |-> 1000, st_gid |-> 1000,
                          st_size |-> metadata.size,
                          st_blocks |-> metadata.blocks,
                          st_blksize |-> 512,
                          st_atime |-> obj.st_mtime,
                          st_mtime |-> obj.st_atime]]

\* FileLike::stat of the object; ty << 12 | perm is ty * 4096 + perm, the
\* permission bits being below 4096
FileLikeStat(obj, ae) ==
    IF obj.kind = "Directory" THEN [ok |-> FALSE, e |-> "EBADF", st |-> NoStat]
    ELSE LET metadata == BackendGetAttr(obj.node, ae)
         IN IF ~metadata.ok
            THEN [ok |-> FALSE, e |-> metadata.e, st |-> NoStat]
            ELSE [ok |-> TRUE, e |-> "OK",
                  st |-> [st_ino |-> 1, st_nlink |-> 1,
                          st_mode |-> metadata.ty * 4096 + metadata.perm,
                          st_uid |-> 1000, st_gid |-> 1000,
                          st_size |-> metadata.size,
                          st_blocks |-> metadata.blocks,
                          st_blksize |-> 512,
                          st_atime |-> obj.st_atime,
                          st_mtime |-> obj.st_mtime]]

\* sys_fstat: the result and the stat written to the buffer
sys_fstat(fd, bufNull, ae) ==
    IF bufNull THEN [r |-> Fail("EFAULT", {}), wrote |-> FALSE, st |-> NoStat]
    ELSE LET g == get_file_like(fdTable, fd)
         IN IF ~g.ok
            THEN [r |-> Fail(g.e, {fd}), wrote |-> FALSE, st |-> NoStat]
            ELSE LET s == FileLikeStat(g.obj, ae)
                 IN IF ~s.ok
                    THEN [r |-> Fail(s.e, {fd}), wrote |-> FALSE, st |-> NoStat]
                    ELSE [r |-> [Fail("OK", {fd}) EXCEPT !.ret = Ok(0),
                                     !.route = "fd", !.node = g.obj.node],
                          wrote |-> TRUE, st |-> s.st]

\* sys_stat that writes the buffer before File::stat has answered
sys_stat_WritesEarly(path, bufNull, ae) ==
    IF bufNull THEN [r |-> Fail("EFAULT", {}), wrote |-> FALSE, st |-> NoStat]
    ELSE LET n == ResolveCwd(path)
             options == [OptionsNew EXCEPT !.read = TRUE]
             o == BackendOpenFile(fs, fsz, n, options)
             call == <<[fn |-> "open_file", node |-> n, opts |-> options,
                        e |-> o.e]>>
             s == FileLikeStat(FileNew(n), ae)
         IN IF ~o.ok
            THEN [r |-> [Fail(o.e, {}) EXCEPT !.calls = call, !.route = "cwd",
                                              !.node = n],
                  wrote |-> FALSE, st |-> NoStat]
            ELSE IF ~s.ok
            THEN [r |-> [Fail(s.e, {}) EXCEPT !.calls = call,
                                              !.route = "cwd", !.node = n],
                  wrote |-> TRUE, st |-> DefaultStat]
            ELSE [r |-> [Fail("OK", {}) EXCEPT !.ret = Ok(0), !.calls = call,
                                               !.route = "cwd", !.node = n],
                  wrote |-> TRUE, st |-> s.st]

\* sys_stat: the result and the stat written to the buffer
sys_stat(path, bufNull, ae) ==
    IF bufNull THEN [r |-> Fail("EFAULT", {}), wrote |-> FALSE, st |-> NoStat]
    ELSE LET n == ResolveCwd(path)
             options == [OptionsNew EXCEPT !.read = TRUE]
             o == BackendOpenFile(fs, fsz, n, options)
             call == <<[fn |-> "open_file", node |-> n, opts |-> options,
                        e |-> o.e]>>
             s == FileLikeStat(FileNew(n), ae)
         IN IF ~o.ok
            THEN [r |-> [Fail(o.e, {}) EXCEPT !.calls = call, !.route = "cwd",
                                              !.node = n],
                  wrote |-> FALSE, st |-> NoStat]
            ELSE IF ~s.ok
            THEN [r |-> [Fail(s.e, {}) EXCEPT !.calls = call,
                                              !.route = "cwd", !.node = n],
                  wrote |-> FALSE, st |-> NoStat]
            ELSE [r |-> [Fail("OK", {}) EXCEPT !.ret = Ok(0), !.calls = call,
                                               !.route = "cwd", !.node = n],
                  wrote |-> TRUE, st |-> s.st]

\* sys_lstat: the result and the stat written to the buffer
sys_lstat(path, bufNull) ==
    IF bufNull THEN [r |-> Fail("EFAULT", {}), wrote |-> FALSE, st |-> NoStat]
    ELSE [r |-> [Fail("OK", {}) EXCEPT !.ret = Ok(0)],
          wrote |-> TRUE, st |-> DefaultStat]

\* sys_close: fd_ops::close_file_like
sys_close(fd) ==
    LET g == get_file_like(fdTable, fd)
    IN IF ~g.ok THEN Fail(g.e, {fd})
       ELSE [ret |-> Ok(0), table |-> [fdTable EXCEPT ![fd] = NoObj],
             fs |-> fs, fsz |-> fsz, calls |-> <<>>,
             lookups |-> {fd}, route |-> "fd", node |-> g.obj.node]

----------------------------------------------------------------------------
(* mkdirat, unlinkat, chdir, getcwd *)

\* axfs create_dir on node n
BackendCreateDir(f, n) ==
    IF Kind(f, n) # "none" THEN [ok |-> FALSE, e |-> "EEXIST", fs |-> f]
    ELSE IF CanCreate(f, n) THEN [ok |-> TRUE, e |-> "OK", fs |-> [f EXCEPT ![n] = "dir"]]
    ELSE [ok |-> FALSE, e |-> "ENOENT", fs |-> f]

\* axfs remove_file on node n
BackendRemoveFile(f, n) ==
    IF Kind(f, n) = "file" THEN [ok |-> TRUE, e |-> "OK", fs |-> [f EXCEPT ![n] = "none"]]
    ELSE IF Kind(f, n) = "dir" THEN [ok |-> FALSE, e |-> "EISDIR", fs |-> f]
    ELSE [ok |-> FALSE, e |-> "ENOENT", fs |-> f]

\* the result of a backend call b that changes the namespace only
NamespaceCall(b, fn, n, lookups, route) ==
    [ret |-> IF b.ok THEN Ok(0) ELSE Err(b.e), table |-> fdTable,
     fs |-> b.fs, fsz |-> fsz,
     calls |-> <<[fn |-> fn, node |-> n, opts |-> OptionsNew]>>,
     lookups |-> lookups, route |-> route, node |-> n]

\* sys_mkdirat
sys_mkdirat(dirfd, pathname) ==
    IF AtUsesCwd(dirfd, pathname)
    THEN LET n == ResolveCwd(pathname)
         IN NamespaceCall(BackendCreateDir(fs, n), "create_dir", n, {}, "cwd")
    ELSE LET d == DirectoryFromFd(fdTable, dirfd)
         IN IF ~d.ok THEN Fail(d.e, {dirfd})
            ELSE LET n == ResolveAt(d.obj.node, pathname)
                 IN NamespaceCall(BackendCreateDir(fs, n), "create_dir", n,
                                  {dirfd}, "dirfd")

\* sys_unlinkat
sys_unlinkat(dirfd, pathname) ==
    IF AtUsesCwd(dirfd, pathname)
    THEN LET n == ResolveCwd(pathname)
         IN NamespaceCall(BackendRemoveFile(fs, n), "remove_file", n, {}, "cwd")
    ELSE LET d == DirectoryFromFd(fdTable, dirfd)
         IN IF ~d.ok THEN Fail(d.e, {dirfd})
            ELSE LET n == ResolveAt(d.obj.node, pathname)
                 IN NamespaceCall(BackendRemoveFile(fs, n), "remove_file", n,
                                  {dirfd}, "dirfd")

\* axfs::api::set_current_dir: the new working directory, or the error
BackendSetCurrentDir(path) ==
    LET n == ResolveCwd(path)
    IN IF Kind(fs, n) = "dir"
       THEN [ok |-> TRUE, e |-> "OK", cwd |-> IF n = Root THEN n ELSE n \o <<"/">>]
       ELSE IF Kind(fs, n) = "file" THEN [ok |-> FALSE, e |-> "ENOTDIR", cwd |-> cwd]
       ELSE [ok |-> FALSE, e |-> "ENOENT", cwd |-> cwd]

\* the byte sys_getcwd ends the path with
Nul == "NUL"

\* sys_getcwd that leaves no room for the terminator
sys_getcwd_OffByOne(bufNull, size) ==
    IF bufNull THEN [ret |-> OkPtr("null"), buf |-> ubuf]
    ELSE IF Len(cwd) <= size
    THEN [ret |-> OkPtr("buf"),
          buf |-> [i \in 1..BufCap |->
                     IF i <= Len(cwd) THEN cwd[i]
                     ELSE IF i = Len(cwd) + 1 THEN "NUL"
                     ELSE ubuf[i]]]
    ELSE [ret |-> Err("ERANGE"), buf |-> ubuf]

\* sys_getcwd on a buffer of `size` bytes: the result and the buffer after it
sys_getcwd(bufNull, size) ==
    IF bufNull THEN [ret |-> OkPtr("null"), buf |-> ubuf]
    ELSE IF Len(cwd) < size
    THEN [ret |-> OkPtr("buf"),
          buf |-> [i \in 1..BufCap |->
                     IF i <= Len(cwd) THEN cwd[i]
                     ELSE IF i = Len(cwd) + 1 THEN Nul
                     ELSE ubuf[i]]]
    ELSE [ret |-> Err("ERANGE"), buf |-> ubuf]

----------------------------------------------------------------------------
(* The state machine: one action per system call *)

\* the filesystem instances that find_mounted_fs knows, by source identifier
Registered == {"disk0", "disk1"}
SourceArgs == Registered \cup {"nodev"}
EmptyPath == <<>>
TargetArgs == {EmptyPath, <<"/", "m">>, <<"m">>, <<".", "/", "m">>}

\* crate::root::find_mounted_fs
BackendFindMountedFs(source) ==
    IF source \in Registered THEN [ok |-> TRUE, fs |-> source]
    ELSE [ok |-> FALSE, fs |-> ""]

\* what mount_fs may answer
MountErrs == {"OK", "ERR"}

\* crate::root::mount_fs: the instance is attached at the path, or refused
BackendMountFs(tbl, target, inst, me) ==
    IF me # "OK" THEN [ok |-> FALSE, table |-> tbl]
    ELSE [ok |-> TRUE,
          table |-> [p \in DOMAIN tbl \cup {target} |->
                        IF p = target THEN inst ELSE tbl[p]]]

\* crate::root::unmount_fs
BackendUnmountFs(tbl, target) ==
    [p \in DOMAIN tbl \ {target} |-> tbl[p]]

\* str::strip_prefix("./")
StripDotSlash(path) ==
    IF Len(path) >= 2 /\ path[1] = "." /\ path[2] = "/"
    THEN SubSeq(path, 3, Len(path))
    ELSE path

\* to_root_path
to_root_path(path) ==
    IF path = EmptyPath THEN [ok |-> FALSE, path |-> EmptyPath]
    ELSE IF IsAbs(path) THEN [ok |-> TRUE, path |-> path]
    ELSE [ok |-> TRUE, path |-> cwd \o <<"/">> \o StripDotSlash(path)]

\* the outcome of a call that unwinds: Result::unwrap on an Err
Panic == [ok |-> FALSE, v |-> 0, e |-> "PANIC", ptr |-> "none"]

\* axfs::api::mount (through sys_mount) that attaches before it looks the
\* source up
mount_AttachesFirst(source, target, me) ==
    LET f == BackendFindMountedFs(source)
        t == to_root_path(target)
        a == BackendMountFs(mounts, t.path, source, me)
    IN IF ~t.ok THEN [ret |-> Panic, mounts |-> mounts, halted |-> TRUE]
       ELSE IF ~a.ok THEN [ret |-> Ok(-1), mounts |-> mounts, halted |-> FALSE]
       ELSE IF ~f.ok THEN [ret |-> Ok(-1), mounts |-> a.table, halted |-> FALSE]
       ELSE [ret |-> Ok(0), mounts |-> a.table, halted |-> FALSE]

\* axfs::api::mount, through sys_mount
mount(source, target, me) ==
    LET f == BackendFindMountedFs(source)
        t == to_root_path(target)
        a == BackendMountFs(mounts, t.path, f.fs, me)
    IN IF ~f.ok THEN [ret |-> Ok(-1), mounts |-> mounts, halted |-> FALSE]
       ELSE IF ~t.ok THEN [ret |-> Panic, mounts |-> mounts, halted |-> TRUE]
       ELSE IF ~a.ok THEN [ret |-> Ok(-1), mounts |-> mounts, halted |-> FALSE]
       ELSE [ret |-> Ok(0), mounts |-> a.table, halted |-> FALSE]

\* axfs::api::unmount that joins a relative target to the working directory
\* as it is written
unmount_KeepsDotSlash(target) ==
    LET t == IF target = EmptyPath \/ IsAbs(target) THEN to_root_path(target)
             ELSE [ok |-> TRUE, path |-> cwd \o <<"/">> \o target]
    IN IF ~t.ok THEN [ret |-> Panic, mounts |-> mounts, halted |-> TRUE]
       ELSE [ret |-> Ok(0), mounts |-> BackendUnmountFs(mounts, t.path),
             halted |-> FALSE]

\* axfs::api::unmount, through sys_umount
unmount(target) ==
    LET t == to_root_path(target)
    IN IF ~t.ok THEN [ret |-> Panic, mounts |-> mounts, halted |-> TRUE]
       ELSE [ret |-> Ok(0), mounts |-> BackendUnmountFs(mounts, t.path),
             halted |-> FALSE]

\* flag words for flags_to_options: every combination of the bits it tests
\* and of two bits it does not (O_EXCL = 128, O_NONBLOCK = 2048), and the
\* word with all bits set
TestedBits == {1, 2, O_CREAT, O_TRUNC, O_APPEND, O_DIRECTORY, O_EXEC}
OtherBits == {128, 2048}
RECURSIVE SumOf(_)
SumOf(S) == IF S = {} THEN 0
            ELSE LET x == CHOOSE y \in S : TRUE IN x + SumOf(S \ {x})
FlagWords == {SumOf(S) : S \in SUBSET (TestedBits \cup OtherBits)} \cup {-1}
ModeArgs == {0, 420}

----------------------------------------------------------------------------
(* Times: the user-mode and kernel-mode time of a task *)

TickValues == 0..MaxTick

\* Times::new
TimesNew == [start_time |-> [type |-> "User", time |-> -1], utime |-> 0, stime |-> 0]

\* Times::is_valid
is_valid(self) ==
    ~(self.start_time.type = "None" \/ self.start_time.time = -1)

\* Times::change_to_wait
change_to_wait(self) ==
    IF self.start_time.type \in {"Kernel", "User"}
    THEN [self EXCEPT !.start_time.time = -1]
    ELSE self

\* Times::set_start_time
set_start_time(self, cur_time, is_kernel) ==
    [self EXCEPT !.start_time =
        [type |-> IF is_kernel THEN "Kernel" ELSE "User", time |-> cur_time]]

\* Times::update_time
update_time(self, cur_time) ==
    IF ~is_valid(self) THEN self
    ELSE change_to_wait(
           CASE self.start_time.type = "Kernel" ->
                   [self EXCEPT !.stime = cur_time - self.start_time.time]
             [] self.start_time.type = "User" ->
                   [self EXCEPT !.utime = cur_time - self.start_time.time]
             [] OTHER -> self)

\* no interval is running: before the first transition, and after an
\* update_time that no set_start_time followed
NoRun == [mode |-> "None", since |-> -1]

\* the intervals over once the running one ends at tick r
SpentAt(r) ==
    IF run.mode = "None" THEN spent
    ELSE [spent EXCEPT ![run.mode] = @ + (r - run.since)]

\* into_kernel (is_kernel) and into_user: update_time_by_curr reads the tick
\* counter as r1, set_curr_time reads it again as r2
Transition(is_kernel, r1, r2) ==
    /\ tms' = set_start_time(update_time(tms, r1), r2, is_kernel)
    /\ ticks' = r2
    /\ spent' = SpentAt(r1)
    /\ run' = [mode |-> IF is_kernel THEN "Kernel" ELSE "User", since |-> r2]
    /\ UNCHANGED <<fdTable, fs, fsz, cwd, clock, ubuf, sbuf, last, steps,
                   mounts, halted, calling, pc, held, shared, seen>>

\* the tick counter does not go back
IntoKernel ==
    \E r1, r2 \in TickValues :
        /\ ticks <= r1 /\ r1 <= r2
        /\ Transition(TRUE, r1, r2)

IntoUser ==
    \E r1, r2 \in TickValues :
        /\ ticks <= r1 /\ r1 <= r2
        /\ Transition(FALSE, r1, r2)

\* update_time_by_curr with no set_start_time after it
UpdateTimeByCurr ==
    \E r1 \in TickValues :
        /\ ticks <= r1
        /\ tms' = update_time(tms, r1)
        /\ ticks' = r1
        /\ spent' = SpentAt(r1)
        /\ run' = NoRun
        /\ UNCHANGED <<fdTable, fs, fsz, cwd, clock, ubuf, sbuf, last, steps,
                       mounts, halted, calling, pc, held, shared, seen>>

----------------------------------------------------------------------------
(* Tasks that call into one shared File and one shared Directory object *)

\* number of tasks
NTasks == 2
Tasks == 1..NTasks

\* File: inner, st_atime, st_mtime; Directory: inner
Locks == {"inner", "st_atime", "st_mtime", "dir_inner"}

NoCall == [op |-> "none", ok |-> TRUE, times |-> NullTimes]
TaskOps == {"read", "write", "lseek", "stat", "fstat", "utimensat", "openat"}

Acq(l) == <<"acquire", l>>
Rel(l) == <<"release", l>>
Backend == <<"backend", "">>

\* File::stat that locks the backend handle again to read the attributes
LockPlan_StatRelocksInner(op, ok) ==
    CASE op \in {"read", "write", "lseek"} ->
            <<Acq("inner"), Backend, Rel("inner")>>
      [] op = "fstat" /\ ~ok ->
            <<Acq("inner"), Acq("inner"), Backend, Rel("inner")>>
      [] op = "fstat" /\ ok ->
            <<Acq("inner"), Acq("inner"), Backend, Acq("st_atime"),
              Acq("st_mtime"), Rel("inner"), Rel("st_mtime"), Rel("st_atime")>>
      [] op = "utimensat" ->
            <<Acq("st_atime"), Rel("st_atime"), Acq("st_mtime"), Rel("st_mtime")>>
      [] op = "openat" /\ ok ->
            <<Acq("dir_inner"), Backend, Rel("dir_inner")>>
      [] op = "openat" /\ ~ok ->
            <<Acq("dir_inner"), Backend, Rel("dir_inner"),
              Acq("dir_inner"), Backend, Rel("dir_inner")>>
      [] OTHER -> <<Backend, Backend>>

\* the locks a call takes and gives back, and its backend calls, in order;
\* ok: the first backend call succeeds.
\*   read, write, lseek: self.inner.lock().read / write / seek
\*   fstat: File::stat holds inner over get_attr, then st_atime and st_mtime
\*          until the Stat is built; get_attr failing returns under inner
\*   utimensat: set_atime, then set_mtime, each under its own lock
\*   openat: dir.inner.lock().open_file_at, and open_dir_at for the retry
\*   stat: a File object of its own, shared with no task
LockPlan(op, ok) ==
    CASE op \in {"read", "write", "lseek"} ->
            <<Acq("inner"), Backend, Rel("inner")>>
      [] op = "fstat" /\ ~ok ->
            <<Acq("inner"), Backend, Rel("inner")>>
      [] op = "fstat" /\ ok ->
            <<Acq("inner"), Backend, Acq("st_atime"), Acq("st_mtime"),
              Rel("inner"), Rel("st_mtime"), Rel("st_atime")>>
      [] op = "utimensat" ->
            <<Acq("st_atime"), Rel("st_atime"), Acq("st_mtime"), Rel("st_mtime")>>
      [] op = "openat" /\ ok ->
            <<Acq("dir_inner"), Backend, Rel("dir_inner")>>
      [] op = "openat" /\ ~ok ->
            <<Acq("dir_inner"), Backend, Rel("dir_inner"),
              Acq("dir_inner"), Backend, Rel("dir_inner")>>
      [] OTHER -> <<Backend, Backend>>

\* the explicit (atime, mtime) pair that task t hands to utimensat, and the
\* pair that asks for no change
PairOf(t) == <<TS(t, 1), TS(t, 2)>>
OmitPair == <<TS(0, UTIME_OMIT), TS(0, UTIME_OMIT)>>

\* what File::stat of a task has read of the timestamps: nothing yet, or
\* st_atime, or, with full, both
NoSeen == [st_atime |-> ZeroTime, st_mtime |-> ZeroTime, full |-> FALSE]

\* the step task t is at
StepOf(t) == LockPlan(calling[t].op, calling[t].ok)[pc[t]]
InCall(t) == calling[t] # NoCall
AtStep(t, kind) ==
    /\ InCall(t)
    /\ pc[t] <= Len(LockPlan(calling[t].op, calling[t].ok))
    /\ StepOf(t)[1] = kind

FdArgs == Fds \cup {FdLimit}
AtDirfdArgs == Fds \cup {AT_FDCWD}
DirfdArgs == Fds \cup {AT_FDCWD, -AT_FDCWD, -1}

\* the backend's error choice is drawn only where a directory open can meet
\* a regular file
DirErrsAt(n) == IF Kind(fs, n) = "dir" THEN {"ENOTDIR"} ELSE DirErrs

\* the node a path names from the working directory or from dirfd
NodeOf(useCwd, dirfd, path) ==
    IF useCwd THEN ResolveCwd(path)
    ELSE IF dirfd \in Fds THEN ResolveAt(fdTable[dirfd].node, path)
    ELSE <<>>

\* the times pairs tried with a path: null and two literals
PathTimesArgs == {NullTimes, <<TS(7, 3), TS(8, 4)>>}

\* the record kept of a call with result r, taken in the state before it
LastOf(op, fd, path, flags, times, r) ==
    [op |-> op, fd |-> fd, path |-> path, flags |-> flags, times |-> times,
     ret |-> r.ret, lookups |-> r.lookups, calls |-> r.calls,
     route |-> r.route, node |-> r.node, kind |-> Kind(fs, r.node),
     obj |-> IF fd \in Fds THEN fdTable[fd] ELSE NoObj,
     free |-> FreeFds(fdTable),
     tableSame |-> (r.table = fdTable),
     changed |-> {x \in Fds : r.table[x] # fdTable[x]},
     fsSame |-> (r.fs = fs /\ r.fsz = fsz),
     size |-> 0, bufNull |-> FALSE, bufSame |-> TRUE,
     t0 |-> ZeroTime, reads |-> <<>>, t1 |-> ZeroTime,
     source |-> "", attach |-> "OK", mounts0 |-> [p \in {} |-> ""],
     offset |-> 0, afterEnd |-> -1, mode |-> 0, options |-> OptionsNew,
     prevTarget |-> <<>>, prevMounts |-> [p \in {} |-> ""]]

\* the call with result r takes effect
Commit(op, fd, path, flags, times, r) ==
    /\ ~halted
    /\ UNCHANGED <<mountVars, taskVars>>
    /\ steps < MaxSteps
    /\ steps' = steps + 1
    /\ fdTable' = r.table
    /\ fs' = r.fs
    /\ fsz' = r.fsz
    /\ last' = LastOf(op, fd, path, flags, times, r)

\* the table at the start of a run: empty, or holding the descriptor that
\* open("/f") or open("/a") registers in the empty table
EmptyTable == [fd \in Fds |-> NoObj]
InitTables ==
    {EmptyTable} \cup
    {add_file_like(EmptyTable, o).table :
        o \in {FileNew(<<"/", "f">>),
               DirectoryNew(<<"/", "a">>, <<"/", "a">>)}}

\* the state at the start of a run, in working directory c with mount table mt
InitAt(c, mt) ==
    /\ fdTable \in InitTables
    /\ fs = [n \in Nodes |->
               IF n \in {Root, <<"/", "a">>} THEN "dir"
               ELSE IF n \in {<<"/", "f">>, <<"/", "a", "/", "f">>} THEN "file"
               ELSE "none"]
    /\ fsz = [n \in Nodes |-> IF n = <<"/", "f">> THEN 1 ELSE 0]
    /\ cwd = c
    /\ clock \in {k \in ClockValues : \A d \in ClockValues : ClockLeq(k, d)}
    /\ ubuf = [i \in 1..BufCap |-> "?"]
    /\ sbuf = NoStat
    /\ last = LastOf("init", -1, NullPath, 0, NullTimes, Fail("OK", {}))
    /\ steps = 0
    /\ mounts = mt
    /\ halted = FALSE
    /\ calling = [t \in Tasks |-> NoCall]
    /\ pc = [t \in Tasks |-> 0]
    /\ held = [l \in Locks |-> 0]
    /\ shared = FileNew(<<"/", "f">>)
    /\ seen = [t \in Tasks |-> NoSeen]
    /\ tms = TimesNew
    /\ ticks = 0
    /\ run = NoRun
    /\ spent = [User |-> 0, Kernel |-> 0]

\* after construction: the root as working directory, nothing mounted
NoMounts == [p \in {} |-> ""]
Init == InitAt(Root, NoMounts)

SysOpen ==
    \E path \in PathArgs, flags \in FlagArgs :
      \E de \in DirErrsAt(ResolveCwd(path)) :
        /\ Commit("open", AT_FDCWD, path, flags, NullTimes, sys_open(path, flags, de))
        /\ UNCHANGED <<cwd, clock, ubuf, sbuf>>

SysOpenat ==
    \E dirfd \in AtDirfdArgs, path \in PathArgs, flags \in FlagArgs :
      \E de \in DirErrsAt(NodeOf(AtUsesCwd(dirfd, path), dirfd, path)) :
        /\ Commit("openat", dirfd, path, flags, NullTimes,
                  sys_openat(dirfd, path, flags, de))
        /\ UNCHANGED <<cwd, clock, ubuf, sbuf>>

\* open and openat with flag words that ask for exclusive creation
SysOpenExclusive ==
    /\ steps < MaxSteps
    /\ \E path \in PathArgs, flags \in ExclFlagArgs :
         \E de \in DirErrsAt(ResolveCwd(path)) :
           /\ Commit("open", AT_FDCWD, path, flags, NullTimes, sys_open(path, flags, de))
           /\ UNCHANGED <<cwd, clock, ubuf, sbuf>>

SysOpenatExclusive ==
    /\ steps < MaxSteps
    /\ \E dirfd \in AtDirfdArgs, path \in PathArgs, flags \in ExclFlagArgs :
         \E de \in DirErrsAt(NodeOf(AtUsesCwd(dirfd, path), dirfd, path)) :
           /\ Commit("openat", dirfd, path, flags, NullTimes,
                     sys_openat(dirfd, path, flags, de))
           /\ UNCHANGED <<cwd, clock, ubuf, sbuf>>

SysClose ==
    \E fd \in FdArgs :
        /\ Commit("close", fd, NullPath, 0, NullTimes, sys_close(fd))
        /\ UNCHANGED <<cwd, clock, ubuf, sbuf>>

SysRead ==
    \E fd \in FdArgs :
        /\ Commit("read", fd, NullPath, 0, NullTimes, sys_read(fd))
        /\ UNCHANGED <<cwd, clock, ubuf, sbuf>>

SysWrite ==
    \E fd \in FdArgs :
        /\ sys_write(fd).ret.ok => fdTable[fd].offset < MaxSize
        /\ Commit("write", fd, NullPath, 0, NullTimes, sys_write(fd))
        /\ UNCHANGED <<cwd, clock, ubuf, sbuf>>

SysLseek ==
    \E fd \in FdArgs, a \in SeekArgs :
        LET r == sys_lseek(fd, a[1], a[2])
        IN /\ r.ret.v <= MaxSize
           /\ ~halted
           /\ steps < MaxSteps
           /\ steps' = steps + 1
           /\ fdTable' = r.table
           /\ fs' = r.fs
           /\ fsz' = r.fsz
           \* afterEnd: the descriptor that the call before this one, a
           \* successful lseek(fd, 0, End), left at the end of its file
           /\ last' = [LastOf("lseek", fd, NullPath, a[2], NullTimes, r) EXCEPT
                          !.offset = a[1],
                          !.afterEnd =
                              IF /\ last.op = "lseek" /\ last.flags = 2
                                 /\ last.offset = 0 /\ last.ret.ok
                              THEN last.fd ELSE -1]
           /\ UNCHANGED <<cwd, clock, ubuf, sbuf, mounts, halted, taskVars>>

\* a call that answers through the stat buffer takes effect
StatCommit(op, fd, path, bufNull, c) ==
    /\ ~halted
    /\ UNCHANGED <<mountVars, taskVars>>
    /\ steps < MaxSteps
    /\ steps' = steps + 1
    /\ fdTable' = c.r.table
    /\ fs' = c.r.fs
    /\ fsz' = c.r.fsz
    /\ sbuf' = IF c.wrote THEN c.st ELSE sbuf
    /\ last' = [LastOf(op, fd, path, 0, NullTimes, c.r) EXCEPT
                   !.bufNull = bufNull,
                   !.bufSame = (sbuf' = sbuf)]
    /\ UNCHANGED <<cwd, clock, ubuf>>

\* get_attr is reached only for a File behind a non-null buffer
AttrErrsFor(reached) == IF reached THEN AttrErrs ELSE {"OK"}

SysFstat ==
    \E fd \in FdArgs, bufNull \in BOOLEAN :
      \E ae \in AttrErrsFor(~bufNull /\ fd \in Fds /\ fdTable[fd].kind = "File") :
        StatCommit("fstat", fd, NullPath, bufNull, sys_fstat(fd, bufNull, ae))

SysStat ==
    \E path \in PathArgs, bufNull \in BOOLEAN :
      \E ae \in AttrErrsFor(~bufNull /\ Kind(fs, ResolveCwd(path)) = "file") :
        StatCommit("stat", AT_FDCWD, path, bufNull, sys_stat(path, bufNull, ae))

SysLstat ==
    \E path \in PathArgs, bufNull \in BOOLEAN :
        StatCommit("lstat", AT_FDCWD, path, bufNull, sys_lstat(path, bufNull))

SysMkdirat ==
    \E dirfd \in AtDirfdArgs, path \in PathArgs :
        /\ Commit("mkdirat", dirfd, path, 0, NullTimes, sys_mkdirat(dirfd, path))
        /\ UNCHANGED <<cwd, clock, ubuf, sbuf>>

SysUnlinkat ==
    \E dirfd \in AtDirfdArgs, path \in PathArgs :
        /\ Commit("unlinkat", dirfd, path, 0, NullTimes, sys_unlinkat(dirfd, path))
        /\ UNCHANGED <<cwd, clock, ubuf, sbuf>>

\* sys_utimensat, with the clock readings it takes
Utimensat(dirfd, path, times, de, r1, r2, r3) ==
    /\ ~halted
    /\ UNCHANGED <<mountVars, taskVars>>
    /\ steps < MaxSteps
    /\ ClockLeq(clock, r1) /\ ClockLeq(r1, r2) /\ ClockLeq(r2, r3)
    \* a reading that is not taken is not drawn
    /\ times # NullTimes => r1 = clock
    /\ (times = NullTimes \/ path # NullPath) => (r2 = r1 /\ r3 = r1)
    /\ (times # NullTimes /\ times[1].tv_nsec # UTIME_NOW) => r2 = r1
    /\ (times # NullTimes /\ times[2].tv_nsec # UTIME_NOW) => r3 = r2
    /\ steps' = steps + 1
    /\ LET r == sys_utimensat(dirfd, path, times, r1, r2, r3, de)
       IN /\ fdTable' = r.table
          /\ fs' = r.fs
          /\ fsz' = r.fsz
          /\ last' = [LastOf("utimensat", dirfd, path, 0, times, r) EXCEPT
                         !.t0 = DurationToTimespec(clock),
                         !.reads = <<DurationToTimespec(r1),
                                     DurationToTimespec(r2),
                                     DurationToTimespec(r3)>>,
                         !.t1 = DurationToTimespec(r3)]
    /\ clock' = r3
    /\ UNCHANGED <<cwd, ubuf, sbuf>>

\* utimensat with a null pathname
SysUtimensatFd ==
    /\ steps < MaxSteps
    /\ \E dirfd \in DirfdArgs, times \in TimesArgs, r1, r2, r3 \in ClockValues :
         Utimensat(dirfd, NullPath, times, "ENOTDIR", r1, r2, r3)

\* utimensat with a pathname
SysUtimensatPath ==
    /\ steps < MaxSteps
    /\ \E dirfd \in DirfdArgs, path \in PathArgs, times \in PathTimesArgs :
         \E de \in DirErrsAt(NodeOf(UtimensatUsesCwd(dirfd, path), dirfd, path)),
            r1 \in ClockValues :
           Utimensat(dirfd, path, times, de, r1, r1, r1)

\* a call of mount or umount takes effect
MountCommit(op, source, target, me, c) ==
    /\ ~halted
    /\ steps < MaxSteps
    /\ steps' = steps + 1
    /\ mounts' = c.mounts
    /\ halted' = c.halted
    /\ last' = [LastOf(op, -1, target, 0, NullTimes,
                       [Fail("OK", {}) EXCEPT !.ret = c.ret]) EXCEPT
                   !.source = source, !.attach = me, !.mounts0 = mounts,
                   \* the target and the table of a mount that succeeded right
                   \* before this call
                   !.prevTarget = IF last.op = "mount" /\ last.ret = Ok(0)
                                  THEN last.path ELSE EmptyPath,
                   !.prevMounts = last.mounts0]
    /\ UNCHANGED <<fdTable, fs, fsz, cwd, clock, ubuf, sbuf, taskVars>>

SysMount ==
    \E source \in SourceArgs, target \in TargetArgs :
      \E me \in IF source \in Registered /\ target # EmptyPath
                THEN MountErrs ELSE {"OK"} :
        MountCommit("mount", source, target, me, mount(source, target, me))

SysUmount ==
    \E target \in TargetArgs :
        MountCommit("umount", "", target, "OK", unmount(target))

\* flags_to_options applied, once, to a flag word and a mode
FlagsToOptions ==
    \E flags \in FlagWords, mode \in ModeArgs :
        /\ steps = 0
        /\ steps' = 1
        /\ last' = [LastOf("flags_to_options", -1, NullPath, flags, NullTimes,
                           Fail("OK", {})) EXCEPT
                       !.mode = mode,
                       !.options = flags_to_options(flags, mode)]
        /\ UNCHANGED <<fdTable, fs, fsz, cwd, clock, ubuf, sbuf, mounts, halted,
                       taskVars>>

\* task t enters a call
TaskBeginWith(t, pairs) ==
    /\ ~InCall(t)
    /\ \E op \in TaskOps :
        \E ok \in IF op \in {"fstat", "openat"} THEN BOOLEAN ELSE {TRUE},
           times \in IF op = "utimensat" THEN pairs ELSE {NullTimes} :
          calling' = [calling EXCEPT ![t] = [op |-> op, ok |-> ok, times |-> times]]
    /\ pc' = [pc EXCEPT ![t] = 1]
    /\ UNCHANGED <<held, shared, seen>>

\* a task enters a call; its utimensat asks for no change of the timestamps
TaskBegin(t) == TaskBeginWith(t, {OmitPair})

\* a task enters a call; its utimensat hands over the pair of the task
TaskBeginExplicit(t) == TaskBeginWith(t, {PairOf(t)})

\* Mutex::lock: the task goes on when the lock is free, and waits otherwise;
\* File::stat reads the field as soon as it has the lock
\* (*self.st_atime.lock(), *self.st_mtime.lock())
TaskAcquire(t) ==
    /\ AtStep(t, "acquire")
    /\ held[StepOf(t)[2]] = 0
    /\ held' = [held EXCEPT ![StepOf(t)[2]] = t]
    /\ pc' = [pc EXCEPT ![t] = @ + 1]
    /\ seen' = IF calling[t].op = "fstat" /\ StepOf(t)[2] = "st_atime"
               THEN [seen EXCEPT ![t].st_atime = shared.st_atime]
               ELSE IF calling[t].op = "fstat" /\ StepOf(t)[2] = "st_mtime"
               THEN [seen EXCEPT ![t].st_mtime = shared.st_mtime,
                                 ![t].full = TRUE]
               ELSE seen
    /\ UNCHANGED <<calling, shared>>

\* the guard of a lock is dropped; set_atime and set_mtime have written the
\* field under it (self.st_atime.lock().set_as_utime(atime))
TaskRelease(t) ==
    /\ AtStep(t, "release")
    /\ held' = [held EXCEPT ![StepOf(t)[2]] = 0]
    /\ pc' = [pc EXCEPT ![t] = @ + 1]
    /\ shared' = IF calling[t].op = "utimensat" /\ StepOf(t)[2] = "st_atime"
                 THEN set_atime(shared, calling[t].times[1], ZeroTime)
                 ELSE IF calling[t].op = "utimensat" /\ StepOf(t)[2] = "st_mtime"
                 THEN set_mtime(shared, calling[t].times[2], ZeroTime)
                 ELSE shared
    /\ UNCHANGED <<calling, seen>>

\* a call of the backend returns
TaskBackend(t) ==
    /\ AtStep(t, "backend")
    /\ pc' = [pc EXCEPT ![t] = @ + 1]
    /\ UNCHANGED <<calling, held, shared, seen>>

\* the call returns to the task
TaskReturn(t) ==
    /\ InCall(t)
    /\ pc[t] > Len(LockPlan(calling[t].op, calling[t].ok))
    /\ calling' = [calling EXCEPT ![t] = NoCall]
    /\ pc' = [pc EXCEPT ![t] = 0]
    /\ seen' = [seen EXCEPT ![t] = NoSeen]
    /\ UNCHANGED <<held, shared>>

\* the state that the steps of the tasks leave alone
callVars == <<fdTable, fs, fsz, cwd, clock, ubuf, sbuf, last, steps,
              mounts, halted, timesVars>>

\* a step inside the call of task t
TaskStep(t) ==
    /\ \/ TaskAcquire(t)
       \/ TaskRelease(t)
       \/ TaskBackend(t)
       \/ TaskReturn(t)
    /\ UNCHANGED callVars

Begin ==
    /\ \E t \in Tasks : TaskBegin(t)
    /\ UNCHANGED callVars

Step == \E t \in Tasks : TaskStep(t)

BeginExplicit ==
    /\ \E t \in Tasks : TaskBeginExplicit(t)
    /\ UNCHANGED callVars

SysChdir ==
    \E path \in PathArgs \cup {Root} :
        LET b == BackendSetCurrentDir(path)
        IN /\ Commit("chdir", AT_FDCWD, path, 0, NullTimes,
                     [Fail(b.e, {}) EXCEPT !.ret = IF b.ok THEN Ok(0) ELSE Err(b.e),
                                           !.node = ResolveCwd(path)])
           /\ cwd' = b.cwd
           /\ UNCHANGED <<clock, ubuf, sbuf>>

SysGetcwd ==
    \E bufNull \in BOOLEAN, size \in 0..BufCap :
        LET g == sys_getcwd(bufNull, size)
        IN /\ ~halted
           /\ UNCHANGED <<mountVars, taskVars>>
           /\ steps < MaxSteps
           /\ steps' = steps + 1
           /\ ubuf' = g.buf
           /\ last' = [LastOf("getcwd", -1, NullPath, 0, NullTimes,
                               [Fail("OK", {}) EXCEPT !.ret = g.ret]) EXCEPT
                          !.size = size, !.bufNull = bufNull,
                          !.bufSame = (g.buf = ubuf)]
           /\ UNCHANGED <<fdTable, fs, fsz, cwd, clock, sbuf>>

\* the wall clock advances between calls
Tick ==
    \E c \in ClockValues :
        /\ ~halted
        /\ UNCHANGED <<mountVars, taskVars>>
        /\ c # clock
        /\ ClockLeq(clock, c)
        /\ clock' = c
        /\ UNCHANGED <<fdTable, fs, fsz, cwd, ubuf, sbuf, last, steps>>

Next ==
    \/ SysOpen
    \/ SysOpenat
    \/ SysClose
    \/ SysRead
    \/ SysWrite
    \/ SysLseek
    \/ SysFstat
    \/ SysStat
    \/ SysLstat
    \/ SysMkdirat
    \/ SysUnlinkat
    \/ SysUtimensatFd
    \/ SysUtimensatPath
    \/ SysChdir
    \/ SysGetcwd
    \/ SysMount
    \/ SysUmount
    \/ Tick

Spec == Init /\ [][Next]_vars

\* open, read, write, fstat and close alone
NextOpen ==
    \/ SysOpen
    \/ SysOpenat
    \/ SysClose
    \/ SysRead
    \/ SysWrite
    \/ SysFstat

SpecOpen == Init /\ [][NextOpen]_vars

\* the timestamp overlay alone
NextTime ==
    \/ SysUtimensatFd
    \/ SysFstat
    \/ Tick

SpecTime == Init /\ [][NextTime]_vars

\* utimensat alone, with and without a pathname
NextUtimensat ==
    \/ SysUtimensatFd
    \/ SysUtimensatPath

\* one File open at the start; the calls with a pathname add the rest
InitUtimensat == Init /\ fdTable = add_file_like(EmptyTable, FileNew(<<"/", "f">>)).table

SpecUtimensat == InitUtimensat /\ [][NextUtimensat]_vars

\* the unified open from its three callers, with exclusive creation asked for
NextRetry ==
    \/ SysOpenExclusive
    \/ SysOpenatExclusive
    \/ SysUtimensatPath
    \/ SysClose

SpecRetry == Init /\ [][NextRetry]_vars

\* the working directory alone
\* the calls that answer through the stat buffer, on files that grow
NextStat ==
    \/ SysStat
    \/ SysFstat
    \/ SysLstat
    \/ SysWrite
    \/ SysUtimensatFd

SpecStat == Init /\ [][NextStat]_vars

\* mount and umount, from every working directory
NextMount ==
    \/ SysMount
    \/ SysUmount
    \/ SysChdir

SpecMount == Init /\ [][NextMount]_vars

\* mount and unmount from the root or from /a, with nothing mounted or one
\* instance attached at /x
InitRoundTrip ==
    \E c \in {Root, <<"/", "a">>},
       mt \in {NoMounts, [p \in {<<"/", "x">>} |-> "disk0"]} : InitAt(c, mt)

SpecRoundTrip == InitRoundTrip /\ [][NextMount]_vars

\* the calls that move the cursor of a File
NextSeek ==
    \/ SysLseek
    \/ SysRead
    \/ SysWrite

SpecSeek == Init /\ [][NextSeek]_vars

\* flags_to_options on its own
NextFlags == FlagsToOptions

SpecFlags == Init /\ [][NextFlags]_vars

\* tasks calling concurrently into the shared objects; a task that is in a
\* call takes its next step whenever it can, again and again: the backend
\* returns, and Mutex wakes its waiters in turn
NextTasks ==
    \/ Begin
    \/ Step

\* the steps of the tasks read nothing of the descriptor table: one start
InitTasks == Init /\ fdTable = EmptyTable

SpecTasks ==
    /\ InitTasks
    /\ [][NextTasks]_vars
    /\ \A t \in Tasks : SF_vars(TaskStep(t))

\* tasks whose utimensat calls hand over explicit pairs
NextStamps ==
    \/ BeginExplicit
    \/ Step

SpecStamps == InitTasks /\ [][NextStamps]_vars

\* the timestamps of a descriptor among opens, closes, fstat and stat
NextOverlay ==
    \/ SysOpen
    \/ SysClose
    \/ SysUtimensatFd
    \/ SysFstat
    \/ SysStat

SpecOverlay == Init /\ [][NextOverlay]_vars

\* the transitions of one task between user mode and kernel mode
NextTimes ==
    \/ IntoKernel
    \/ IntoUser
    \/ UpdateTimeByCurr

SpecTimes == Init /\ [][NextTimes]_vars

NextCwd ==
    \/ SysChdir
    \/ SysGetcwd
    \/ SysMkdirat

SpecCwd == Init /\ [][NextCwd]_vars

----------------------------------------------------------------------------
(* Properties *)

\* the calls that take a dirfd and a pathname
IsAtCall ==
    \/ last.op \in {"openat", "mkdirat", "unlinkat"}
    \/ last.op = "utimensat" /\ last.path # NullPath

\* the two candidates of a utimensat call are explicit values
ExplicitTimes ==
    /\ last.times # NullTimes
    /\ last.times[1].tv_nsec \notin {UTIME_NOW, UTIME_OMIT}
    /\ last.times[2].tv_nsec \notin {UTIME_NOW, UTIME_OMIT}

C2_FullTableEMFILE ==
    /\ ( /\ last.op = "open"
         /\ last.kind = "file"
         /\ ~HasBit(last.flags, O_DIRECTORY)
         /\ last.free = {} )
       => last.ret = Err("EMFILE")
    /\ ( /\ last.op = "open"
         /\ last.kind = "file"
         /\ ~HasBit(last.flags, O_DIRECTORY)
         /\ last.free # {} )
       => ( /\ last.ret.ok
            /\ last.ret.v \in last.free
            /\ \A fd \in last.free : last.ret.v <= fd )

\* C3: openat, mkdirat, unlinkat and utimensat with a pathname go to the
\* working directory, without looking dirfd up, when the path is absolute
\* or dirfd is AT_FDCWD, and never go to the working directory otherwise.
C3_UniformResolution ==
    IsAtCall =>
        IF IsAbs(last.path) \/ last.fd = AT_FDCWD
        THEN last.route = "cwd" /\ last.lookups = {}
        ELSE last.route # "cwd"

\* C4: openat, mkdirat, unlinkat and utimensat with a relative path and a
\* dirfd other than AT_FDCWD that is not open, or holds a File, fail with
\* EBADF and change neither the descriptor table nor the filesystem.
C4_BadDirfdEBADF ==
    ( /\ IsAtCall
      /\ ~IsAbs(last.path)
      /\ last.fd # AT_FDCWD
      /\ last.obj.kind \in {"None", "File"} )
    => ( /\ last.ret = Err("EBADF")
         /\ last.tableSame
         /\ last.fsSame )

\* C5: after a successful utimensat with a pathname and two explicit
\* values, an object opened on the node the path names holds these two
\* values as its atime and mtime.
C5_PathTimesApplied ==
    ( /\ last.op = "utimensat"
      /\ last.path # NullPath
      /\ ExplicitTimes
      /\ last.ret.ok )
    => \E fd \in Fds :
          /\ fdTable[fd].kind # "None"
          /\ fdTable[fd].node = last.node
          /\ fdTable[fd].st_atime = last.times[1]
          /\ fdTable[fd].st_mtime = last.times[2]

\* C6: utimensat with a null pathname and a null times pointer on a File
\* descriptor succeeds and leaves atime and mtime between the clock at the
\* start of the call and the clock at its end.
C6_NullTimesIsNow ==
    ( /\ last.op = "utimensat"
      /\ last.path = NullPath
      /\ last.times = NullTimes
      /\ last.obj.kind = "File" )
    => ( /\ last.ret = Ok(0)
         /\ TimeLeq(last.t0, fdTable[last.fd].st_atime)
         /\ TimeLeq(fdTable[last.fd].st_atime, last.t1)
         /\ TimeLeq(last.t0, fdTable[last.fd].st_mtime)
         /\ TimeLeq(fdTable[last.fd].st_mtime, last.t1) )

\* C6 happens: the clock moved between the start of the call and its reading
C6_Witness ==
    /\ last.op = "utimensat"
    /\ last.path = NullPath
    /\ last.times = NullTimes
    /\ last.obj.kind = "File"
    /\ last.ret.ok
    /\ last.t0 # last.t1
    /\ fdTable[last.fd].st_atime = last.t1

\* the value the three-way rule gives a field that held `old`, for the
\* candidate `cand` and the clock reading `now`
ThreeWay(old, cand, now) ==
    CASE cand.tv_nsec = UTIME_NOW -> now
      [] cand.tv_nsec = UTIME_OMIT -> old
      [] OTHER -> cand

\* C7: utimensat with a null pathname and a times pair on a File descriptor
\* sets atime and mtime each by its own candidate: UTIME_NOW gives the
\* clock reading taken for that field, within the call; UTIME_OMIT leaves
\* the field as it was; any other candidate is stored as given.
C7_ThreeWayRule ==
    ( /\ last.op = "utimensat"
      /\ last.path = NullPath
      /\ last.times # NullTimes
      /\ last.obj.kind = "File" )
    => ( /\ last.ret = Ok(0)
         /\ fdTable[last.fd].st_atime =
                ThreeWay(last.obj.st_atime, last.times[1], last.reads[2])
         /\ fdTable[last.fd].st_mtime =
                ThreeWay(last.obj.st_mtime, last.times[2], last.reads[3])
         /\ \A i \in {2, 3} : TimeLeq(last.t0, last.reads[i])
                              /\ TimeLeq(last.reads[i], last.t1)
         /\ fdTable[last.fd].offset = last.obj.offset
         /\ fdTable[last.fd].node = last.obj.node )

\* C7 happens: atime, set by an earlier call, is omitted and kept while mtime
\* takes a literal
C7_Witness ==
    /\ last.op = "utimensat"
    /\ last.path = NullPath
    /\ last.times # NullTimes
    /\ last.obj.kind = "File"
    /\ last.times[1].tv_nsec = UTIME_OMIT
    /\ last.times[2] = TS(8, 4)
    /\ last.obj.st_atime = TS(7, 3)
    /\ last.obj.st_mtime # TS(8, 4)
    /\ fdTable[last.fd].st_atime = TS(7, 3)
    /\ fdTable[last.fd].st_mtime = TS(8, 4)

\* C8: utimensat with a negative dirfd other than AT_FDCWD returns EBADF,
\* looks no descriptor up, calls no backend open and leaves the descriptor
\* table, with the timestamps in it, and the filesystem as they were.
C8_NegativeDirfd ==
    ( /\ last.op = "utimensat"
      /\ last.fd < 0
      /\ last.fd # AT_FDCWD )
    => ( /\ last.ret = Err("EBADF")
         /\ last.lookups = {}
         /\ last.calls = <<>>
         /\ last.tableSame
         /\ last.fsSame )

\* C8 happens: a negative dirfd with a pathname, while a File is open
C8_Witness ==
    /\ last.op = "utimensat"
    /\ last.fd = -1
    /\ last.path # NullPath
    /\ last.ret = Err("EBADF")
    /\ \E fd \in Fds : fdTable[fd].kind = "File"

\* C9: lseek on a Directory descriptor, and utimensat with a null pathname
\* on a Directory descriptor, return EBADF, as they do for a descriptor
\* that is not open, and change nothing in the descriptor table.
C9_WrongKindEBADF ==
    ( /\ \/ last.op = "lseek" /\ last.flags \in {0, 1, 2}
         \/ last.op = "utimensat" /\ last.path = NullPath /\ last.fd >= 0
      /\ last.obj.kind \in {"None", "Directory"} )
    => ( /\ last.ret = Err("EBADF")
         /\ last.tableSame )

\* C10: getcwd returns null for a null buffer; for a buffer of size
\* len(cwd)+1 or more it copies cwd, ends it with a 0 byte at index len(cwd)
\* and returns the buffer; for a smaller size it fails with ERANGE; it
\* writes to the buffer in the second case only.
C10_Getcwd ==
    last.op = "getcwd" =>
        IF last.bufNull
        THEN last.ret = OkPtr("null") /\ last.bufSame
        ELSE IF last.size >= Len(cwd) + 1
        THEN /\ last.ret = OkPtr("buf")
             /\ \A i \in 1..Len(cwd) : ubuf[i] = cwd[i]
             /\ ubuf[Len(cwd) + 1] = Nul
        ELSE last.ret = Err("ERANGE") /\ last.bufSame

\* C10 happens: after a chdir, a buffer of exactly len(cwd)+1 bytes is filled
C10_Witness ==
    /\ last.op = "getcwd"
    /\ ~last.bufNull
    /\ Len(cwd) > 1
    /\ last.size = Len(cwd) + 1
    /\ last.ret = OkPtr("buf")
    /\ ubuf[last.size] = Nul

\* the Stat that File::stat gives for a File object when the backend answers
StatOf(obj) == FileLikeStat(obj, "OK").st

\* C11: stat and fstat either return 0 and leave in the buffer the complete
\* Stat of the object, or return an error and leave the buffer as it was; a
\* null buffer gives EFAULT with no descriptor looked up and no backend call.
C11_NoPartialStat ==
    last.op \in {"stat", "fstat"} =>
        /\ last.bufNull =>
              /\ last.ret = Err("EFAULT")
              /\ last.lookups = {}
              /\ last.calls = <<>>
        /\ ~last.ret.ok => last.bufSame
        /\ last.ret.ok =>
              /\ last.ret = Ok(0)
              /\ ~last.bufNull
              /\ sbuf = IF last.op = "fstat" THEN StatOf(fdTable[last.fd])
                        ELSE StatOf(FileNew(last.node))
              /\ sbuf.st_ino = 1 /\ sbuf.st_blksize = 512
        /\ last.tableSame /\ last.fsSame

\* C11 happens: get_attr fails in a stat by path while the buffer holds the
\* Stat of an earlier call
C11_Witness ==
    /\ last.op = "stat"
    /\ ~last.bufNull
    /\ last.kind = "file"
    /\ last.ret = Err("EIO")
    /\ sbuf # NoStat
    /\ sbuf.st_ino = 1

\* C12: the Stat that fstat or stat writes for a File has st_mode =
\* type * 2^12 + permission bits, st_ino = st_nlink = 1, st_uid = st_gid =
\* 1000, st_blksize = 512, the size and blocks of the backend, and the atime
\* and mtime of the File object: those of the descriptor for fstat, zero for
\* the File that stat opens and for a File no utimensat call preceded.
C12_StatFields ==
    (last.op \in {"stat", "fstat"} /\ last.ret.ok) =>
        /\ sbuf.st_mode = BackendType(last.node) * 4096 + BackendPerm(last.node)
        /\ sbuf.st_mode \div 4096 = 8
        /\ sbuf.st_ino = 1 /\ sbuf.st_nlink = 1
        /\ sbuf.st_uid = 1000 /\ sbuf.st_gid = 1000
        /\ sbuf.st_blksize = 512
        /\ sbuf.st_size = fsz[last.node]
        /\ sbuf.st_blocks = BackendBlocks(last.node)
        /\ last.op = "fstat" =>
              /\ sbuf.st_atime = fdTable[last.fd].st_atime
              /\ sbuf.st_mtime = fdTable[last.fd].st_mtime
        /\ (last.op = "stat" \/ steps = 1) =>
              /\ sbuf.st_atime = ZeroTime
              /\ sbuf.st_mtime = ZeroTime

\* C12 happens: fstat reports the two different timestamps that a utimensat
\* call left on the descriptor
C12_Witness ==
    /\ last.op = "fstat"
    /\ last.ret.ok
    /\ sbuf.st_atime = TS(7, 3)
    /\ sbuf.st_mtime = TS(8, 4)
    /\ sbuf.st_size = 1

\* C13: for a non-null buffer lstat returns what stat returns for the same
\* path and leaves in the buffer what stat leaves: the Stat of the file, or
\* the buffer as it was when stat fails.
C13_LstatIsStat ==
    (last.op = "lstat" /\ ~last.bufNull) =>
        LET c == sys_stat(last.path, FALSE, "OK")
        IN /\ last.ret = c.r.ret
           /\ IF c.wrote THEN sbuf = c.st ELSE last.bufSame

\* the absolute root path a non-empty target stands for
RootPathOf(target) ==
    IF target[1] = "/" THEN target
    ELSE cwd \o <<"/">> \o StripDotSlash(target)

C15_EmptyTarget ==
    last.op \in {"mount", "umount"} =>
        /\ ~halted
        /\ last.ret \in {Ok(0), Ok(-1)}
        /\ last.path = EmptyPath =>
              /\ last.ret = Ok(-1)
              /\ mounts = last.mounts0

\* C16: lseek(fd, 0, End) on a File descriptor returns the size that stat
\* reports for the file and leaves the cursor there; lseek(fd, 0, Current)
\* as the next call returns that size again; lseek with a whence outside
\* {0, 1, 2} returns EINVAL and leaves the descriptor table as it was.
C16_SeekEndCurrent ==
    last.op = "lseek" =>
        /\ (last.flags = 2 /\ last.offset = 0 /\ last.obj.kind = "File") =>
              /\ last.ret = Ok(StatOf(last.obj).st_size)
              /\ fdTable[last.fd].offset = fsz[last.node]
        /\ (last.flags = 1 /\ last.offset = 0 /\ last.afterEnd = last.fd) =>
              /\ last.ret = Ok(StatOf(fdTable[last.fd]).st_size)
              /\ last.ret = Ok(fsz[fdTable[last.fd].node])
              /\ last.tableSame
        /\ last.flags \notin {0, 1, 2} =>
              /\ last.ret = Err("EINVAL")
              /\ last.tableSame
              /\ last.lookups = {}

\* C16 happens: lseek(fd, 0, Current) follows lseek(fd, 0, End) on a file
\* that is not empty
C16_Witness ==
    /\ last.op = "lseek"
    /\ last.flags = 1
    /\ last.offset = 0
    /\ last.afterEnd = last.fd
    /\ last.ret.ok
    /\ last.ret.v > 0

\* C17: every Directory object in the descriptor table stores an absolute
\* path, which is the location of the directory in the namespace.
C17_DirectoryPathAbsolute ==
    \A fd \in Fds :
        fdTable[fd].kind = "Directory" =>
            /\ IsAbs(fdTable[fd].path)
            /\ fdTable[fd].path = fdTable[fd].node

\* C18: when the file attempt and the directory attempt of the unified open
\* both fail, a directory attempt that failed with EINVAL gives ENOTDIR, a
\* path that did not exist gives the not-found error of the file attempt,
\* and every other error of the directory attempt is returned as it is.
C18_ErrorChoice ==
    ( /\ last.op \in {"open", "openat"}
      /\ Len(last.calls) = 2
      /\ ~last.ret.ok )
    => /\ last.calls[2].e = "EINVAL" => last.ret = Err("ENOTDIR")
       /\ (last.kind = "none" /\ last.calls[1].e = "ENOENT") =>
              last.ret = Err(last.calls[1].e)
       /\ last.calls[2].e # "EINVAL" => last.ret = Err(last.calls[2].e)

\* the flag word with bit b flipped
FlipBit(flags, b) == IF HasBit(flags, b) THEN flags - b ELSE flags + b

\* C19: flags_to_options gives, for every flag word and mode: read only for
\* the low two bits O_RDONLY, write only for O_WRONLY, read and write for
\* any other; append, truncate, create and directory exactly with O_APPEND,
\* O_TRUNC, O_CREAT and O_DIRECTORY; create_new exactly with the
\* execute/create-new bit; execute never; and the same options for the
\* word with another bit flipped and for another mode.
C19_FlagsToOptions ==
    last.op = "flags_to_options" =>
        LET f == last.flags
            o == last.options
        IN /\ o.read = (f % 4 # O_WRONLY)
           /\ o.write = (f % 4 # O_RDONLY)
           /\ o.append = HasBit(f, O_APPEND)
           /\ o.truncate = HasBit(f, O_TRUNC)
           /\ o.create = HasBit(f, O_CREAT)
           /\ o.directory = HasBit(f, O_DIRECTORY)
           /\ o.create_new = HasBit(f, O_EXEC)
           /\ o.execute = FALSE
           /\ DOMAIN o = DOMAIN OptionsNew
           /\ \A b \in OtherBits, m \in ModeArgs :
                 flags_to_options(FlipBit(f, b), m) = o

\* C19 happens: the access bits are both set, next to a bit that is not
\* tested and the execute/create-new bit, and give read and write
C19_Witness ==
    /\ last.op = "flags_to_options"
    /\ last.flags = 3 + 128 + O_EXEC
    /\ last.mode = 420
    /\ last.options.read /\ last.options.write
    /\ last.options.create_new
    /\ ~last.options.create

\* C20: a task that is in a read, write, lseek, stat, fstat, utimensat or
\* openat call on the shared File or Directory, whatever the other tasks
\* call, comes out of the call.
C20_EveryCallReturns ==
    \A t \in Tasks : InCall(t) ~> ~InCall(t)

\* C20 happens: a task in fstat holds the three locks of the File while
\* another, in utimensat, waits for one of them
C20_Witness ==
    \E t, u \in Tasks :
        /\ t # u
        /\ calling[t].op = "fstat"
        /\ held["inner"] = t /\ held["st_atime"] = t /\ held["st_mtime"] = t
        /\ calling[u].op = "utimensat"
        /\ AtStep(u, "acquire")
        /\ held[StepOf(u)[2]] = t

\* the options the caller of the unified open holds in the last call
CallerOptions ==
    IF last.op = "utimensat" THEN OptionsNew
    ELSE flags_to_options(last.flags, ModeArg)

\* the last call went through the unified open and retried as a directory
Retried ==
    /\ last.op \in {"open", "openat", "utimensat"}
    /\ Len(last.calls) = 2
    /\ last.calls[1].fn = "open_file"
    /\ last.calls[2].fn = "open_dir"

\* C21: the directory retry of the unified open follows a file attempt that
\* failed, and is handed the caller's options with execute on and create_new
\* off and the other six fields as the caller set them; the file attempt was
\* handed the caller's options as they are; no directory open, by open and
\* openat with the options handed over, is asked for exclusive creation.
C21_DirectoryRetryOptions ==
    Retried =>
        LET o == CallerOptions
            f == last.calls[1]
            d == last.calls[2]
        IN /\ f.e # "OK"
           /\ f.given = o
           /\ d.given.execute /\ ~d.given.create_new
           /\ \A k \in {"read", "write", "append", "truncate", "create", "directory"} :
                 d.given[k] = o[k]
           /\ ~d.opts.create_new
           /\ last.op \in {"open", "openat"} => d.opts = d.given

\* C21 happens: openat asks for exclusive creation of a path that is a
\* directory; the file attempt fails and the retry opens the directory
C21_Witness ==
    /\ Retried
    /\ last.op = "openat"
    /\ CallerOptions.create_new /\ CallerOptions.create
    /\ last.calls[1].e = "EISDIR"
    /\ last.ret.ok

\* the last two calls were a mount that succeeded and an unmount, of t
\* again or of the other of 'x' and './x'
RoundTrip ==
    /\ last.op = "umount"
    /\ last.prevTarget # EmptyPath
    /\ \/ last.path = last.prevTarget
       \/ /\ ~IsAbs(last.path) /\ ~IsAbs(last.prevTarget)
          /\ last.path # EmptyPath
          /\ StripDotSlash(last.path) = StripDotSlash(last.prevTarget)

\* C22: a mount of a non-empty target that succeeds, at a path that was not
\* a mount point, followed by unmount of the same target with the working
\* directory as it was, gives back the mount table of before the mount, for
\* an absolute target, a relative one and one with a leading './'; 'x' and
\* './x' name the same mount point, so either undoes the other.
C22_MountUnmountRoundTrip ==
    (RoundTrip /\ RootPathOf(last.prevTarget) \notin DOMAIN last.prevMounts) =>
        /\ last.ret = Ok(0)
        /\ mounts = last.prevMounts
        /\ RootPathOf(last.path) = RootPathOf(last.prevTarget)

\* C22 happens: from /a, with an instance attached elsewhere, 'm' is mounted
\* and './m' unmounted
C22_Witness ==
    /\ RoundTrip
    /\ cwd = <<"/", "a">>
    /\ last.prevTarget = <<"m">>
    /\ last.path = <<".", "/", "m">>
    /\ last.prevMounts # NoMounts
    /\ mounts = last.prevMounts

\* C23: utimensat, whatever it returns, leaves the set of open descriptors
\* as it was; with a pathname the table is the one of before the call, with
\* a null pathname only the timestamps of the File of dirfd may differ.
C23_UtimensatKeepsDescriptors ==
    last.op = "utimensat" =>
        /\ FreeFds(fdTable) = last.free
        /\ last.path # NullPath => last.tableSame
        /\ (last.path = NullPath /\ last.fd \in Fds) =>
              fdTable = [fdTable EXCEPT ![last.fd] =
                            [last.obj EXCEPT !.st_atime = fdTable[last.fd].st_atime,
                                             !.st_mtime = fdTable[last.fd].st_mtime]]

\* C24: a call of open or openat that returns a descriptor d has changed
\* the entry d of the descriptor table, which was free and now holds an
\* object, and no other entry; a call that returns an error has changed no
\* entry, also when the backend opened the file and the directory attempt
\* was made all the same.
C24_OpenChangesOneEntry ==
    last.op \in {"open", "openat"} =>
        IF last.ret.ok
        THEN /\ last.changed = {last.ret.v}
             /\ last.ret.v \in last.free
             /\ fdTable[last.ret.v].kind \in {"File", "Directory"}
             /\ FreeFds(fdTable) = last.free \ {last.ret.v}
        ELSE /\ last.changed = {}
             /\ FreeFds(fdTable) = last.free

\* C24 happens: the table is full, the backend opens the file, the File
\* finds no descriptor, the directory attempt is made and openat fails
C24_Witness ==
    /\ last.op = "openat"
    /\ last.free = {}
    /\ Len(last.calls) = 2
    /\ last.calls[1].e = "EMFILE"
    /\ ~last.ret.ok
    /\ last.changed = {}

\* a pair of timestamps is the one of the new File or the pair of one call
WholePair(a, m) ==
    \/ a = ZeroTime /\ m = ZeroTime
    \/ \E u \in Tasks : <<a, m>> = PairOf(u)

\* the final pair of concurrent utimensat calls is the pair of one of them
C25_FinalPair ==
    (\A t \in Tasks : calling[t].op # "utimensat") =>
        WholePair(shared.st_atime, shared.st_mtime)

\* File::stat reports the pair of one call, or the pair of the new File
C25_StatPair ==
    \A t \in Tasks : seen[t].full => WholePair(seen[t].st_atime, seen[t].st_mtime)

\* C25: tasks call utimensat on one File with the explicit pairs (a1, m1)
\* and (a2, m2): once the calls are over the File holds the pair of one of
\* them, and the pair that a concurrent fstat reads is the pair of one call
\* or the pair from before the calls, never the atime of one with the mtime
\* of another.
C25_PairAtomic ==
    /\ C25_FinalPair
    /\ C25_StatPair

\* C26: utimensat on a descriptor changes no entry of the descriptor table
\* but that of the descriptor, and there only the two timestamps; fstat
\* reports the timestamps of the File of its own descriptor and stat those
\* of a File of its own, which are zero, and neither changes an entry; a
\* close leaves nothing of the File in the table and the File that an open
\* registers has zero timestamps, whatever was set on the path before.
C26_OverlayPerObject ==
    /\ (last.op = "utimensat" /\ last.path = NullPath) =>
          /\ last.changed \subseteq {last.fd}
          /\ last.ret.ok =>
                fdTable[last.fd] =
                    [last.obj EXCEPT !.st_atime = fdTable[last.fd].st_atime,
                                     !.st_mtime = fdTable[last.fd].st_mtime]
    /\ (last.op = "fstat" /\ last.ret.ok) =>
          /\ sbuf.st_atime = fdTable[last.fd].st_atime
          /\ sbuf.st_mtime = fdTable[last.fd].st_mtime
          /\ last.changed = {}
    /\ (last.op = "stat" /\ last.ret.ok) =>
          /\ sbuf.st_atime = ZeroTime /\ sbuf.st_mtime = ZeroTime
          /\ last.changed = {}
    /\ (last.op = "close" /\ last.ret.ok) => fdTable[last.fd] = NoObj
    /\ (last.op = "open" /\ last.ret.ok) =>
          /\ fdTable[last.ret.v].st_atime = ZeroTime
          /\ fdTable[last.ret.v].st_mtime = ZeroTime

\* C26 happens: two descriptors are open on /f; utimensat sets the
\* timestamps of the second and those of the first stay zero
C26_Witness ==
    /\ last.op = "utimensat"
    /\ last.fd = 1
    /\ last.ret.ok
    /\ fdTable[0].kind = "File" /\ fdTable[1].kind = "File"
    /\ fdTable[0].node = fdTable[1].node
    /\ fdTable[1].st_atime = TS(7, 3) /\ fdTable[1].st_mtime = TS(8, 4)
    /\ fdTable[0].st_atime = ZeroTime /\ fdTable[0].st_mtime = ZeroTime

\* C27: after any sequence of into_kernel, into_user and update_time at
\* tick values that do not decrease, utime is the sum of the lengths of the
\* user-mode intervals that are over and stime the sum of the kernel-mode
\* ones; an update_time that finds start_time at -1 ends no interval and
\* so changes neither.
C27_TimesAccounting ==
    /\ tms.utime = spent.User
    /\ tms.stime = spent.Kernel

====
